---- MODULE Spec2Model ----
(***************************************************************************)
(* Blog RSS aggregator: scripts/generate-rss.ts (multi-source program) and *)
(* its single-source predecessor (src/unnamed/part_000).                   *)
(*                                                                         *)
(* The model follows one run of main.  Program steps are cut at the        *)
(* points where the environment can act: each awaited fetch, and each      *)
(* parseDate call (a read of the wall clock, which may have advanced).     *)
(***************************************************************************)
EXTENDS Integers, Sequences, FiniteSets, TLC

\* ------------------------------------------------------------------ bounds
\* Pages a finite Cursor listing can hold.
MaxSitePages == 2
\* Milliseconds the wall clock can advance during one run.
MaxClock == 1

\* ------------------------------------------------------- program constants
\* const maxPages = 100
maxPages == 100

\* --------------------------------------------------------------- raw dates
\* BlogPost.date is the raw string found on the page.  new Date(s).getTime()
\* is NaN for "" and for text that is not a date; two different strings can
\* denote the same instant.  Instants are counted relative to the start of
\* the run (the clock starts at 0), so published dates are negative.
DateStrs == {"2025-11-12", "Nov 13, 2025", "November 13, 2025", "Nov 14, 2025", "", "soon"}

IsNaNDate(dateStr) == dateStr \in {"", "soon"}

getTime(dateStr) ==
  CASE dateStr = "2025-11-12" -> 0 - 3
    [] dateStr = "Nov 13, 2025" -> 0 - 2
    [] dateStr = "November 13, 2025" -> 0 - 2
    [] dateStr = "Nov 14, 2025" -> 0 - 1

\* parseDate(dateStr) called when the clock reads `clock`.
parseDate(dateStr, clock) == IF IsNaNDate(dateStr) THEN clock ELSE getTime(dateStr)

\* ------------------------------------------------------------------- posts
Post(t, l, c, d, s) == [title |-> t, link |-> l, category |-> c, date |-> d, source |-> s]

\* ------------------------------------------------------ blogSources (config)
blogSources == <<
  [slug |-> "cursor", name |-> "Cursor Blog", url |-> "https://cursor.com/blog", paginated |-> TRUE],
  [slug |-> "claude", name |-> "Claude Blog", url |-> "https://claude.com/blog", paginated |-> FALSE],
  [slug |-> "anthropic-engineering", name |-> "Anthropic Engineering",
   url |-> "https://www.anthropic.com/engineering", paginated |-> FALSE],
  [slug |-> "anthropic-research", name |-> "Anthropic Research",
   url |-> "https://www.anthropic.com/research", paginated |-> FALSE] >>

\* The single-source program has one hard-wired source (BLOG_URL).
legacySources == << [slug |-> "cursor", name |-> "Cursor Blog", url |-> "https://cursor.com/blog", paginated |-> TRUE] >>

Slugs == {blogSources[i].slug : i \in 1..Len(blogSources)}

\* ------------------------------------------------- deduplication by link
\* posts.filter(post => { if (seen.has(post.link)) return false;
\*                        seen.add(post.link); return true; })
RECURSIVE DedupeFrom(_, _)
DedupeFrom(posts, seen) ==
  IF posts = <<>> THEN <<>>
  ELSE IF Head(posts).link \in seen
       THEN DedupeFrom(Tail(posts), seen)
       ELSE <<Head(posts)>> \o DedupeFrom(Tail(posts), seen \cup {Head(posts).link})

\* A filter whose duplicate branch forgets the link again.
RECURSIVE DedupeForgetful(_, _)
DedupeForgetful(posts, seen) ==
  IF posts = <<>> THEN <<>>
  ELSE IF Head(posts).link \in seen
       THEN DedupeForgetful(Tail(posts), seen \ {Head(posts).link})
       ELSE <<Head(posts)>> \o DedupeForgetful(Tail(posts), seen \cup {Head(posts).link})

dedupeByLink_Forgetful(posts) == DedupeForgetful(posts, {})

\* A filter that keeps the last post of each link instead of the first.
RECURSIVE DedupeLast(_)
DedupeLast(posts) ==
  IF posts = <<>> THEN <<>>
  ELSE IF \E i \in 2..Len(posts) : posts[i].link = Head(posts).link
       THEN DedupeLast(Tail(posts))
       ELSE <<Head(posts)>> \o DedupeLast(Tail(posts))

dedupeByLink_LastWins(posts) == DedupeLast(posts)

dedupeByLink(posts) == DedupeFrom(posts, {})


\* ---------------------------------------------------------------- the web
\* What the sites can serve.  A fetched page is modelled by what the program
\* reads from it: the list the source's parser extracts from the markup
\* (posts) and the page numbers n for which the markup holds the text
\* "/blog/page/n" (refs).
ca == "https://cursor.com/blog/a"
cb == "https://cursor.com/blog/b"
la == "https://claude.com/blog/l"
ne == "https://www.anthropic.com/news/x"
en == "https://www.anthropic.com/engineering/y"
re == "https://www.anthropic.com/research/z"

\* The card parser pushes one post per matching anchor and keeps no seen-set:
\* a Cursor page can repeat a link.
CursorPageVariants == {
  << Post("A", ca, "product", "Nov 14, 2025", "Cursor"), Post("B", cb, "post", "soon", "Cursor") >>,
  << Post("A again", ca, "post", "", "Cursor"), Post("A old", ca, "news", "2025-11-12", "Cursor") >> }

\* A listing that never ends: every page number answers with one post.
EndlessPage(p) ==
  IF p % 2 = 1 THEN << Post("Odd", ca, "post", "2025-11-12", "Cursor") >>
               ELSE << Post("Even", cb, "post", "", "Cursor") >>

\* The line-classifying parsers keep a seen-set (one post per link) and take a
\* date only from a line that matches the month-day-year pattern.
ClaudeVariants == <<
  << Post("Claude one", la, "Agents", "November 13, 2025", "Claude Blog") >> >>

EngineeringVariants == <<
  << Post("News X", ne, "Engineering", "Nov 13, 2025", "Anthropic Engineering") >>,
  << Post("Eng Y", en, "Engineering", "", "Anthropic Engineering"),
     Post("News X", ne, "Engineering", "Nov 14, 2025", "Anthropic Engineering") >> >>

ResearchVariants == <<
  << Post("News X", ne, "Announcements", "", "Anthropic Research") >>,
  << Post("Paper Z", re, "Alignment", "Nov 14, 2025", "Anthropic Research"),
     Post("News X", ne, "Research", "Nov 13, 2025", "Anthropic Research") >> >>

VariantsOf(slug) ==
  CASE slug = "claude" -> ClaudeVariants
    [] slug = "anthropic-engineering" -> EngineeringVariants
    [] slug = "anthropic-research" -> ResearchVariants

FetchFailed == [ok |-> FALSE, posts |-> <<>>, refs |-> {}]
Html(ps, rs) == [ok |-> TRUE, posts |-> ps, refs |-> rs]

\* Markup of page p whose only pagination text is "/blog/page/<p+1>0": a link
\* to a page whose number begins with the digits of p + 1.
PrefixOnlyPage(p) ==
  Html(<< Post("A", ca, "product", "Nov 14, 2025", "Cursor") >>, {10 * (p + 1)})

\* Responses to the fetch of page p of the Cursor listing: fetchPage throws
\* (network error, or !res.ok), or returns markup.
CursorResponses(kind, p) ==
  LET contents == IF kind = "endless" THEN {EndlessPage(p)}
                  ELSE IF p <= MaxSitePages THEN CursorPageVariants ELSE {}
  IN  {FetchFailed}
      \cup {Html(ps, rs) : ps \in contents \cup {<<>>}, rs \in {{}, {p + 1}}}
      \cup (IF kind = "finite" /\ p = 1 THEN {PrefixOnlyPage(p)} ELSE {})

\* Responses to the single fetch of another source's listing URL.  In a run
\* against an endless Cursor listing the other sites are up and serve their
\* first variant.
SingleResponses(kind, slug) ==
  LET vs == VariantsOf(slug)
  IN  IF kind = "endless" THEN {Html(vs[1], {})}
      ELSE {FetchFailed} \cup {Html(vs[i], {}) : i \in 1..Len(vs)}

\* html.includes(`/blog/page/${n}`): a substring test, so the text
\* "/blog/page/20" also contains "/blog/page/2".
RECURSIVE IsDecimalPrefix(_, _)
IsDecimalPrefix(n, m) ==
  IF m = n THEN TRUE
  ELSE IF m < 10 THEN FALSE
  ELSE IsDecimalPrefix(n, m \div 10)

includesPageRef(html, n) == \E m \in html.refs : IsDecimalPrefix(n, m)

\* ------------------------------------------------------------------ state
VARIABLES
  prog,          \* "multi": scripts/generate-rss.ts; "single": the one-source program
  listing,       \* the Cursor listing of this run: "finite" or "endless"
  pc,            \* where main is
  srcIdx,        \* index of the source in the fetch loop
  page,          \* the crawler's page
  crawlPosts,    \* the crawler's allPosts accumulator
  crawlRet,      \* slug -> what its crawler returned
  invoked,       \* slugs whose fetchAll has been called, in call order
  fetchLog,      \* every fetch issued: [slug, url, page, ok, posts, next, linked]
  errLog,        \* console.error lines
  postsBySource, \* main's Map slug -> deduplicated posts
  allPosts,      \* main's allPosts
  feeds,         \* target -> items added to that feed so far
  written,       \* targets whose files have been written
  feedIdx,       \* index of the feed being built
  itemIdx,       \* index of the next post to add to it
  sortedPosts,   \* the array being sorted in place, then the sorted result
  si,            \* sort: index of the element being inserted
  sj,            \* sort: its current position
  now,           \* the wall clock (ms since the run started)
  dIn,           \* Deduplicator on its own: the input list
  dOut,          \* Deduplicator on its own: the outputs of its successive runs
  hIn,           \* a parser on its own: the anchors of the markup it is given
  hParser,       \* a parser on its own: the source whose parser is applied
  hOut           \* a parser on its own: <<>> before the call, then <<its result>>

mainVars == << prog, listing, pc, srcIdx, page, crawlPosts, crawlRet, invoked, fetchLog,
               errLog, postsBySource, allPosts, feeds, written, feedIdx, itemIdx,
               sortedPosts, si, sj, now >>
dedupeVars == << dIn, dOut >>
parseVars == << hIn, hParser, hOut >>
vars == << mainVars, dedupeVars, parseVars >>

\* ------------------------------------------------------------- the crawlers
Sources == IF prog = "multi" THEN blogSources ELSE legacySources

\* const url = page === 1 ? baseUrl : `${baseUrl}/page/${page}` (path segments)
PageUrl(baseUrl, p) == IF p = 1 THEN <<baseUrl>> ELSE <<baseUrl, "page", p>>

\* The loop test of the pagination crawler.
LoopCondition_OffByOne(p) == p <= maxPages + 1

LoopCondition(p) == p <= maxPages

\* allPosts.unshift(...posts) in place of push.
Accumulate_Unshift(acc, posts) == posts \o acc

\* allPosts.push(...posts)
Accumulate(acc, posts) == acc \o posts

\* A crawler that skips a failed page and goes on to the next one.
BreaksLoop_SkipFailed(r, p) == r.ok /\ (r.posts = <<>> \/ ~includesPageRef(r, p + 1))

\* A crawler that goes on to the next page without looking for its reference.
BreaksLoop_NoReferenceCheck(r, p) == ~r.ok \/ r.posts = <<>>

\* The three breaks of the loop body: the catch block, the empty parse, and
\* the missing reference to the next page.
BreaksLoop(r, p) == ~r.ok \/ r.posts = <<>> \/ ~includesPageRef(r, p + 1)

\* fetchCursorPosts returns allPosts; fetchAllPosts returns it filtered by
\* first occurrence of each link.
CrawlerReturn(acc) == IF prog = "single" THEN dedupeByLink(acc) ELSE acc

\* A single-page crawler whose try block drops the parse result.
SinglePageResult_Dropped(r) == <<>>

\* try { return parse(await fetchFn(baseUrl)) } catch { return [] }
SinglePageResult(r) == IF r.ok THEN r.posts ELSE <<>>

Init ==
  /\ prog \in {"multi", "single"}
  /\ listing \in {"finite", "endless"}
  /\ pc = "main"
  /\ srcIdx = 1
  /\ page = 1
  /\ crawlPosts = <<>>
  /\ crawlRet = [s \in {} |-> <<>>]
  /\ invoked = <<>>
  /\ fetchLog = <<>>
  /\ errLog = <<>>
  /\ postsBySource = [s \in {} |-> <<>>]
  /\ allPosts = <<>>
  /\ feeds = [t \in Slugs \cup {"legacy", "all"} |-> <<>>]
  /\ written = {}
  /\ feedIdx = 1
  /\ itemIdx = 1
  /\ sortedPosts = <<>>
  /\ si = 2
  /\ sj = 2
  /\ now = 0
  /\ dIn = <<>>
  /\ dOut = <<>>
  /\ hIn = <<>>
  /\ hParser = "none"
  /\ hOut = <<>>

\* main's fetch loop calls source.fetchAll; the crawler runs to its first fetch.
CallFetchAll ==
  /\ pc = "main"
  /\ srcIdx <= Len(Sources)
  /\ invoked' = Append(invoked, Sources[srcIdx].slug)
  /\ IF Sources[srcIdx].paginated
     THEN page' = 1 /\ crawlPosts' = <<>> /\ pc' = "crawl"
     ELSE UNCHANGED << page, crawlPosts >> /\ pc' = "single"
  /\ UNCHANGED << prog, listing, srcIdx, crawlRet, fetchLog, errLog, postsBySource, allPosts,
                  feeds, written, feedIdx, itemIdx, sortedPosts, si, sj, now, dedupeVars, parseVars >>

\* One iteration of the pagination loop: the awaited fetch answers, the page is
\* parsed, and the loop either goes on to the next page or the crawler returns.
CrawlFetch ==
  /\ pc = "crawl"
  /\ LoopCondition(page)
  /\ \E r \in CursorResponses(listing, page) :
       LET src == Sources[srcIdx]
           stop == BreaksLoop(r, page)
           acc == IF r.ok /\ r.posts # <<>> THEN Accumulate(crawlPosts, r.posts) ELSE crawlPosts
           nextPage == IF stop THEN page ELSE page + 1
           exits == stop \/ ~LoopCondition(nextPage)
       IN  /\ fetchLog' = Append(fetchLog,
                 [slug |-> src.slug, url |-> PageUrl(src.url, page), page |-> page, ok |-> r.ok,
                  posts |-> r.posts, next |-> r.ok /\ includesPageRef(r, page + 1),
                  linked |-> (page + 1) \in r.refs])
           /\ crawlPosts' = acc
           /\ page' = nextPage
           /\ IF exits
              THEN /\ pc' = "returned"
                   /\ crawlRet' = (src.slug :> CrawlerReturn(acc)) @@ crawlRet
              ELSE UNCHANGED << pc, crawlRet >>
  /\ UNCHANGED << prog, listing, srcIdx, invoked, errLog, postsBySource, allPosts,
                  feeds, written, feedIdx, itemIdx, sortedPosts, si, sj, now, dedupeVars, parseVars >>

\* fetchClaudePosts, fetchAnthropicEngineeringPosts, fetchAnthropicResearchPosts.
SingleFetch ==
  /\ pc = "single"
  /\ \E r \in SingleResponses(listing, Sources[srcIdx].slug) :
       LET src == Sources[srcIdx]
       IN  /\ fetchLog' = Append(fetchLog,
                 [slug |-> src.slug, url |-> <<src.url>>, page |-> 1, ok |-> r.ok,
                  posts |-> r.posts, next |-> FALSE, linked |-> FALSE])
           /\ errLog' = IF r.ok THEN errLog ELSE Append(errLog, src.slug)
           /\ crawlRet' = (src.slug :> SinglePageResult(r)) @@ crawlRet
  /\ pc' = "returned"
  /\ UNCHANGED << prog, listing, srcIdx, page, crawlPosts, invoked, postsBySource, allPosts,
                  feeds, written, feedIdx, itemIdx, sortedPosts, si, sj, now, dedupeVars, parseVars >>

\* -------------------------------------------------------------------- main
\* postsBySource.get(slug) || []
Get(slug) == IF slug \in DOMAIN postsBySource THEN postsBySource[slug] ELSE <<>>

\* A fetch loop that gives up on the first source that comes back empty.
AfterCollect_Abort(posts) ==
  IF posts # <<>> /\ srcIdx + 1 <= Len(Sources) THEN "main" ELSE "feed"

\* for (const source of blogSources): the next source, or on to the feeds.
AfterCollect(posts) == IF srcIdx + 1 <= Len(Sources) THEN "main" ELSE "feed"

\* The crawler's promise resolves and main goes on: in the multi-source
\* program it deduplicates, records and appends; the single-source program
\* keeps what fetchAllPosts returned.
MainCollect ==
  /\ pc = "returned"
  /\ LET slug == Sources[srcIdx].slug
         posts == crawlRet[slug]
         dedupedPosts == IF prog = "multi" THEN dedupeByLink(posts) ELSE posts
     IN  /\ postsBySource' = (slug :> dedupedPosts) @@ postsBySource
         /\ allPosts' = IF prog = "multi" THEN allPosts \o dedupedPosts ELSE allPosts
         /\ pc' = AfterCollect(dedupedPosts)
  /\ srcIdx' = srcIdx + 1
  /\ feedIdx' = 1
  /\ itemIdx' = 1
  /\ UNCHANGED << prog, listing, page, crawlPosts, crawlRet, invoked, fetchLog, errLog,
                  feeds, written, sortedPosts, si, sj, now, dedupeVars, parseVars >>

\* The feeds main builds, in order: one per source, the legacy root feed, and
\* the aggregate; the single-source program builds the root feed only.
FeedTargets ==
  IF prog = "multi"
  THEN << "cursor", "claude", "anthropic-engineering", "anthropic-research", "legacy", "all" >>
  ELSE << "legacy" >>

FeedPosts(target) ==
  CASE target = "all" -> sortedPosts
    [] target = "legacy" -> Get("cursor")
    [] OTHER -> Get(target)

\* parseDate reads the clock (new Date()) only for a date that does not
\* parse.  The instants such a reading can show when the last one showed t:
\* the same millisecond or a later one.
ClockReadings(dateStr, t) == IF IsNaNDate(dateStr) /\ t < MaxClock THEN {t, t + 1} ELSE {t}

\* feed.addItem({ title, id: link, link, ..., date: parseDate(post.date) })
FeedItem(target, post, clock) ==
  [title |-> IF target = "all" THEN "[" \o post.source \o "] " \o post.title ELSE post.title,
   link |-> post.link,
   category |-> IF target = "all" THEN <<post.category, post.source>> ELSE <<post.category>>,
   date |-> parseDate(post.date, clock),
   raw |-> post.date]

\* One pass of a feed's item loop.
AddItem ==
  /\ pc = "feed"
  /\ itemIdx <= Len(FeedPosts(FeedTargets[feedIdx]))
  /\ \E t \in ClockReadings(FeedPosts(FeedTargets[feedIdx])[itemIdx].date, now) :
       /\ now' = t
       /\ feeds' = [feeds EXCEPT ![FeedTargets[feedIdx]] =
                      Append(@, FeedItem(FeedTargets[feedIdx],
                                         FeedPosts(FeedTargets[feedIdx])[itemIdx], t))]
  /\ itemIdx' = itemIdx + 1
  /\ UNCHANGED << prog, listing, pc, srcIdx, page, crawlPosts, crawlRet, invoked, fetchLog,
                  errLog, postsBySource, allPosts, written, feedIdx, sortedPosts, si, sj,
                  dedupeVars, parseVars >>

\* The feed's files are written.  After the legacy feed the multi-source
\* program deduplicates allPosts and starts sorting; after the last feed the
\* index page is written and the run is over.
WriteFeed ==
  /\ pc = "feed"
  /\ itemIdx > Len(FeedPosts(FeedTargets[feedIdx]))
  /\ written' = written \cup {FeedTargets[feedIdx]}
  /\ IF prog = "multi" /\ FeedTargets[feedIdx] = "legacy"
     THEN /\ pc' = "sort"
          /\ sortedPosts' = dedupeByLink(allPosts)
          /\ si' = 2
          /\ sj' = 2
          /\ UNCHANGED << feedIdx, itemIdx >>
     ELSE /\ IF feedIdx = Len(FeedTargets)
             THEN pc' = "done" /\ UNCHANGED << feedIdx, itemIdx >>
             ELSE pc' = "feed" /\ feedIdx' = feedIdx + 1 /\ itemIdx' = 1
          /\ UNCHANGED << sortedPosts, si, sj >>
  /\ UNCHANGED << prog, listing, srcIdx, page, crawlPosts, crawlRet, invoked, fetchLog,
                  errLog, postsBySource, allPosts, feeds, now, dedupeVars, parseVars >>

\* (a, b) => parseDate(b.date).getTime() - parseDate(a.date).getTime()
\* The left operand is evaluated first: b's date is resolved when the clock
\* reads t1, a's when it reads t2 >= t1.
comparefn(a, b, t1, t2) == parseDate(b.date, t1) - parseDate(a.date, t2)

Swap(arr, i, j) == [arr EXCEPT ![i] = arr[j], ![j] = arr[i]]

\* One comparator call of Array.prototype.sort, as an insertion sort: the
\* element at si is carried left while the engine's call comparefn(pivot,
\* element before it) is negative.  For a consistent comparator this yields
\* the order every stable sort yields.
SortCompare ==
  /\ pc = "sort"
  /\ si <= Len(sortedPosts)
  /\ \E t1 \in ClockReadings(sortedPosts[sj - 1].date, now) :
     \E t2 \in ClockReadings(sortedPosts[sj].date, t1) :
       LET order == comparefn(sortedPosts[sj], sortedPosts[sj - 1], t1, t2)
       IN  /\ now' = t2
           /\ IF order < 0
              THEN /\ sortedPosts' = Swap(sortedPosts, sj, sj - 1)
                   /\ IF sj - 1 > 1
                      THEN sj' = sj - 1 /\ si' = si
                      ELSE si' = si + 1 /\ sj' = si + 1
              ELSE /\ sortedPosts' = sortedPosts
                   /\ si' = si + 1
                   /\ sj' = si + 1
  /\ UNCHANGED << prog, listing, pc, srcIdx, page, crawlPosts, crawlRet, invoked, fetchLog,
                  errLog, postsBySource, allPosts, feeds, written, feedIdx, itemIdx, dedupeVars, parseVars >>

\* sort returns; main goes on to the aggregate feed's item loop.
SortDone ==
  /\ pc = "sort"
  /\ si > Len(sortedPosts)
  /\ pc' = "feed"
  /\ feedIdx' = feedIdx + 1
  /\ itemIdx' = 1
  /\ UNCHANGED << prog, listing, srcIdx, page, crawlPosts, crawlRet, invoked, fetchLog,
                  errLog, postsBySource, allPosts, feeds, written, sortedPosts, si, sj, now,
                  dedupeVars, parseVars >>

Next ==
  \/ CallFetchAll
  \/ CrawlFetch
  \/ SingleFetch
  \/ MainCollect
  \/ AddItem
  \/ WriteFeed
  \/ SortCompare
  \/ SortDone

Spec == Init /\ [][Next]_vars

\* Every awaited fetch settles and the synchronous code between two awaits
\* runs to completion.
FairSpec == Spec /\ WF_vars(Next)

\* ------------------------------------------------- the Deduplicator alone
\* Longest list handed to the Deduplicator on its own.
MaxLen == 3

DedupePosts == {Post("T", l, "post", d, "Cursor") : l \in {ca, cb, ne}, d \in {"", "Nov 14, 2025"}}

DedupeInputs == UNION {[1..n -> DedupePosts] : n \in 0..MaxLen}

InitDedupe ==
  /\ prog = "multi"
  /\ listing = "finite"
  /\ pc = "dedupe"
  /\ srcIdx = 1
  /\ page = 1
  /\ crawlPosts = <<>>
  /\ crawlRet = [s \in {} |-> <<>>]
  /\ invoked = <<>>
  /\ fetchLog = <<>>
  /\ errLog = <<>>
  /\ postsBySource = [s \in {} |-> <<>>]
  /\ allPosts = <<>>
  /\ feeds = [t \in Slugs \cup {"legacy", "all"} |-> <<>>]
  /\ written = {}
  /\ feedIdx = 1
  /\ itemIdx = 1
  /\ sortedPosts = <<>>
  /\ si = 2
  /\ sj = 2
  /\ now = 0
  /\ dIn \in DedupeInputs
  /\ dOut = <<>>
  /\ hIn = <<>>
  /\ hParser = "none"
  /\ hOut = <<>>

\* dedupeByLink applied to the input, then to its own output.
Dedupe ==
  /\ pc = "dedupe"
  /\ Len(dOut) < 2
  /\ dOut' = Append(dOut, dedupeByLink(IF dOut = <<>> THEN dIn ELSE dOut[Len(dOut)]))
  /\ UNCHANGED << mainVars, dIn, parseVars >>

NextDedupe == Dedupe

SpecDedupe == InitDedupe /\ [][NextDedupe]_vars

\* ================================================================ parsers
\* String primitives of the parsers, computed on the characters of the text.
\* White space is the blank; a line break is "\n".
startsWith(s, prefix) ==
  Len(s) >= Len(prefix) /\ SubSeq(s, 1, Len(prefix)) = prefix

includes(s, sub) ==
  \E i \in 1..(Len(s) - Len(sub) + 1) : SubSeq(s, i, i + Len(sub) - 1) = sub

RECURSIVE trimStart(_)
trimStart(s) ==
  IF Len(s) > 0 /\ SubSeq(s, 1, 1) = " " THEN trimStart(SubSeq(s, 2, Len(s))) ELSE s

RECURSIVE trimEnd(_)
trimEnd(s) ==
  IF Len(s) > 0 /\ SubSeq(s, Len(s), Len(s)) = " "
  THEN trimEnd(SubSeq(s, 1, Len(s) - 1)) ELSE s

trim(s) == trimEnd(trimStart(s))

\* text.replace(/\s+/g, ' '): every run of white space becomes one blank.
RECURSIVE collapse(_)
collapse(s) ==
  IF Len(s) < 2 THEN s
  ELSE IF SubSeq(s, 1, 2) = "  " THEN collapse(SubSeq(s, 2, Len(s)))
  ELSE SubSeq(s, 1, 1) \o collapse(SubSeq(s, 2, Len(s)))

normalizeText(text) == trim(collapse(text))

\* text.split('\n'): the pieces between line breaks, empty pieces included.
RECURSIVE split(_)
split(text) ==
  IF ~includes(text, "\n") THEN << text >>
  ELSE LET i == CHOOSE k \in 1..Len(text) :
                  /\ SubSeq(text, k, k) = "\n"
                  /\ \A j \in 1..(k - 1) : SubSeq(text, j, j) # "\n"
       IN << SubSeq(text, 1, i - 1) >> \o split(SubSeq(text, i + 1, Len(text)))

\* text.split('\n').map(l => l.trim()).filter(Boolean)
linesOf(text) ==
  LET pieces == split(text)
      trimmed == [i \in 1..Len(pieces) |-> trim(pieces[i])]
  IN SelectSeq(trimmed, LAMBDA l : l # "")

RECURSIVE join(_, _)
join(lines, sep) ==
  IF lines = <<>> THEN ""
  ELSE IF Len(lines) = 1 THEN lines[1]
  ELSE lines[1] \o sep \o join(Tail(lines), sep)

\* Character classes and case folding of the regular expressions.
UpperCase == "ABCDEFGHIJKLMNOPQRSTUVWXYZ"
LowerCase == "abcdefghijklmnopqrstuvwxyz"
Digits == "0123456789"

IsDigit(ch) == \E i \in 1..Len(Digits) : SubSeq(Digits, i, i) = ch

\* \w
IsWordChar(ch) ==
  \/ IsDigit(ch)
  \/ ch = "_"
  \/ \E i \in 1..Len(UpperCase) : ch \in {SubSeq(UpperCase, i, i), SubSeq(LowerCase, i, i)}

toLowerChar(ch) ==
  IF \E i \in 1..Len(UpperCase) : SubSeq(UpperCase, i, i) = ch
  THEN LET i == CHOOSE k \in 1..Len(UpperCase) : SubSeq(UpperCase, k, k) = ch
       IN SubSeq(LowerCase, i, i)
  ELSE ch

RECURSIVE toLowerCase(_)
toLowerCase(s) ==
  IF Len(s) = 0 THEN s
  ELSE toLowerChar(SubSeq(s, 1, 1)) \o toLowerCase(SubSeq(s, 2, Len(s)))

IsBlank(ch) == ch = " "

AllDigits(s) == \A i \in 1..Len(s) : IsDigit(SubSeq(s, i, i))

AllBlank(s) == \A i \in 1..Len(s) : IsBlank(SubSeq(s, i, i))

LongMonths == {"january", "february", "march", "april", "may", "june", "july",
               "august", "september", "october", "november", "december"}
ShortMonths == {"jan", "feb", "mar", "apr", "may", "jun", "jul",
                "aug", "sep", "oct", "nov", "dec"}

\* /^(<month>)\s+\d{1,2},?\s+\d{4}$/i for the given month names
MonthDayYear(line, months) ==
  LET folded == toLowerCase(line)
  IN \E m \in months :
       /\ startsWith(folded, m)
       /\ LET rest == SubSeq(line, Len(m) + 1, Len(line))
              n == Len(rest)
          IN \E ws1 \in 1..n : \E day \in 1..2 : \E comma \in 0..1 :
               LET ws2 == n - (ws1 + day + comma + 4)
               IN /\ ws2 >= 1
                  /\ AllBlank(SubSeq(rest, 1, ws1))
                  /\ AllDigits(SubSeq(rest, ws1 + 1, ws1 + day))
                  /\ comma = 1 => SubSeq(rest, ws1 + day + 1, ws1 + day + 1) = ","
                  /\ AllBlank(SubSeq(rest, ws1 + day + comma + 1, n - 4))
                  /\ AllDigits(SubSeq(rest, n - 3, n))

\* datePattern.test(line) || shortDatePattern.test(line)
IsDateLine(line) == MonthDayYear(line, LongMonths) \/ MonthDayYear(line, ShortMonths)

\* The markup a parser is given: its anchors in document order.  An anchor
\* carries its href attribute, whether it lies inside an <article>, the
\* texts of its <p> descendants, the text of its first span.capitalize, the
\* dateTime attribute and the text of its first <time>, and its whole text.
Anchor(href, inArticle, paras, span, timeAttr, timeText, text) ==
  [href |-> href, inArticle |-> inArticle, paras |-> paras, span |-> span,
   timeAttr |-> timeAttr, timeText |-> timeText, text |-> text]

siteUrlOf(slug) ==
  CASE slug = "cursor" -> "https://cursor.com"
    [] slug = "claude" -> "https://claude.com"
    [] slug = "anthropic-engineering" -> "https://www.anthropic.com"
    [] slug = "anthropic-research" -> "https://www.anthropic.com"

\* const addPost = (post) => { if (!post.title || !post.link) return; posts.push(post); }
addPost(posts, post) ==
  IF post.title = "" \/ post.link = "" THEN posts ELSE Append(posts, post)

\* !href || href === '/blog' || href.startsWith('/blog/topic') || href.startsWith('/blog/page')
IsNavigation(href) ==
  \/ href = ""
  \/ href = "/blog"
  \/ startsWith(href, "/blog/topic")
  \/ startsWith(href, "/blog/page")

\* categoryText.replace(/\s*·\s*$/, '')
stripSeparator(s) ==
  LET t == trimEnd(s)
  IN IF Len(t) > 0 /\ SubSeq(t, Len(t), Len(t)) = "·"
     THEN trimEnd(SubSeq(t, 1, Len(t) - 1)) ELSE s

CardPost(a, siteUrl) ==
  LET title == normalizeText(IF Len(a.paras) >= 1 THEN a.paras[1] ELSE "")
      categoryText == normalizeText(a.span)
      stripped == stripSeparator(categoryText)
      category == IF stripped = "" THEN "post" ELSE stripped
      dateStr == IF a.timeAttr # "" THEN a.timeAttr ELSE normalizeText(a.timeText)
  IN Post(title, siteUrl \o a.href, category, dateStr, "Cursor")

\* The length of the longest prefix of s made of word characters.
RECURSIVE wordPrefix(_)
wordPrefix(s) ==
  IF Len(s) > 0 /\ IsWordChar(SubSeq(s, 1, 1))
  THEN 1 + wordPrefix(SubSeq(s, 2, Len(s))) ELSE 0

\* metaLine.match(/^(\w+)\s*·\s*(.+)$/): <<group 1, group 2>>, or <<>>
metaMatch(metaLine) ==
  LET w == wordPrefix(metaLine)
      afterWord == trimStart(SubSeq(metaLine, w + 1, Len(metaLine)))
      afterDot == trimStart(SubSeq(afterWord, 2, Len(afterWord)))
  IN IF w > 0 /\ startsWith(afterWord, "·") /\ Len(SubSeq(afterWord, 2, Len(afterWord))) > 0
     THEN << SubSeq(metaLine, 1, w),
             IF afterDot = "" THEN SubSeq(afterWord, Len(afterWord), Len(afterWord))
             ELSE afterDot >>
     ELSE <<>>

FallbackPost(a, siteUrl) ==
  LET lines == linesOf(a.text)
      m == metaMatch(lines[Len(lines)])
      category == IF m = <<>> THEN "post" ELSE m[1]
      dateStr == IF m = <<>> THEN "" ELSE m[2]
  IN Post(lines[1], siteUrl \o a.href, category, dateStr, "Cursor")

RECURSIVE CursorPrimary(_, _, _, _)
CursorPrimary(html, i, siteUrl, posts) ==
  IF i > Len(html) THEN posts
  ELSE LET a == html[i]
       IN CursorPrimary(html, i + 1, siteUrl,
            IF ~(a.inArticle /\ startsWith(a.href, "/blog/")) THEN posts
            ELSE IF IsNavigation(a.href) THEN posts
            ELSE addPost(posts, CardPost(a, siteUrl)))

RECURSIVE CursorFallback(_, _, _, _)
CursorFallback(html, i, siteUrl, posts) ==
  IF i > Len(html) THEN posts
  ELSE LET a == html[i]
       IN CursorFallback(html, i + 1, siteUrl,
            IF ~startsWith(a.href, "/blog/") THEN posts
            ELSE IF IsNavigation(a.href) THEN posts
            ELSE IF Len(linesOf(a.text)) < 2 THEN posts
            ELSE addPost(posts, FallbackPost(a, siteUrl)))

parseCursorBlog(html, siteUrl) ==
  LET posts == CursorPrimary(html, 1, siteUrl, <<>>)
  IN IF Len(posts) = 0 THEN CursorFallback(html, 1, siteUrl, <<>>) ELSE posts

\* href.startsWith('http') ? href : `${siteUrl}${href}`
fullUrlOf(href, siteUrl) == IF startsWith(href, "http") THEN href ELSE siteUrl \o href

ClaudeCategories == {"Agents", "Coding", "Enterprise AI", "Product announcements"}

ResearchCategories == {"Interpretability", "Alignment", "Societal Impacts", "Policy",
                       "Economic Research", "Announcements"}

\* for (const line of lines) { ... } of parseClaudeBlog
RECURSIVE ClaudeLines(_, _, _)
ClaudeLines(lines, i, st) ==
  IF i > Len(lines) THEN st
  ELSE LET line == lines[i]
       IN ClaudeLines(lines, i + 1,
            IF IsDateLine(line) THEN [st EXCEPT !.dateStr = line]
            ELSE IF st.title = "" /\ Len(line) > 10 /\ ~includes(line, "Read more")
                 THEN [st EXCEPT !.title = line]
            ELSE IF line \in ClaudeCategories THEN [st EXCEPT !.category = line]
            ELSE st)

\* for (const line of lines) { ... } of parseAnthropicEngineering
RECURSIVE EngineeringLines(_, _, _)
EngineeringLines(lines, i, st) ==
  IF i > Len(lines) THEN st
  ELSE LET line == lines[i]
       IN EngineeringLines(lines, i + 1,
            IF IsDateLine(line) THEN [st EXCEPT !.dateStr = line]
            ELSE IF st.title = "" /\ Len(line) > 15 THEN [st EXCEPT !.title = line]
            ELSE st)

\* for (const line of lines) { ... } of parseAnthropicResearch
RECURSIVE ResearchLines(_, _, _)
ResearchLines(lines, i, st) ==
  IF i > Len(lines) THEN st
  ELSE LET line == lines[i]
       IN ResearchLines(lines, i + 1,
            IF IsDateLine(line) THEN [st EXCEPT !.dateStr = line]
            ELSE IF line \in ResearchCategories THEN [st EXCEPT !.category = line]
            ELSE IF st.title = "" /\ Len(line) > 15 THEN [st EXCEPT !.title = line]
            ELSE st)

\* The anchors the scan of a heuristic parser goes on with.
ClaudeSelects(href) ==
  /\ includes(href, "/blog/")
  /\ ~(href = "/blog" \/ href = "/blog/" \/ ~includes(href, "/blog/"))

EngineeringSelects(href) ==
  /\ ~(~includes(href, "/engineering/") /\ ~includes(href, "/news/"))
  /\ ~(href = "/engineering" \/ href = "/engineering/")

ResearchSelects(href) ==
  /\ ~(~includes(href, "/research/") /\ ~includes(href, "/news/"))
  /\ ~(href = "/research" \/ href = "/research/")

\* $('a[href*="/blog/"]').each(...) with its seen-set; acc = [posts, seen].
RECURSIVE ClaudeScan(_, _, _, _)
ClaudeScan(html, i, siteUrl, acc) ==
  IF i > Len(html) THEN acc.posts
  ELSE LET a == html[i]
           fullUrl == fullUrlOf(a.href, siteUrl)
           lines == linesOf(a.text)
           st == ClaudeLines(lines, 1, [title |-> "", dateStr |-> "", category |-> "Blog"])
       IN ClaudeScan(html, i + 1, siteUrl,
            IF ~ClaudeSelects(a.href) THEN acc
            ELSE IF fullUrl \in acc.seen THEN acc
            ELSE IF Len(lines) = 0 THEN acc
            ELSE IF st.title = "" THEN acc
            ELSE [posts |-> Append(acc.posts,
                              Post(normalizeText(st.title), fullUrl, st.category, st.dateStr,
                                   "Claude Blog")),
                  seen |-> acc.seen \cup {fullUrl}])

parseClaudeBlog(html, siteUrl) == ClaudeScan(html, 1, siteUrl, [posts |-> <<>>, seen |-> {}])

\* $('a').each(...) of the engineering parser.  category: 'Engineering' is
\* fixed: the line loop never assigns it.
RECURSIVE EngineeringScan(_, _, _, _)
EngineeringScan(html, i, siteUrl, acc) ==
  IF i > Len(html) THEN acc.posts
  ELSE LET a == html[i]
           fullUrl == fullUrlOf(a.href, siteUrl)
           lines == linesOf(a.text)
           st == EngineeringLines(lines, 1, [title |-> "", dateStr |-> "", category |-> "Engineering"])
       IN EngineeringScan(html, i + 1, siteUrl,
            IF ~EngineeringSelects(a.href) THEN acc
            ELSE IF fullUrl \in acc.seen THEN acc
            ELSE IF Len(lines) = 0 THEN acc
            ELSE IF st.title = "" THEN acc
            ELSE [posts |-> Append(acc.posts,
                              Post(normalizeText(st.title), fullUrl, st.category, st.dateStr,
                                   "Anthropic Engineering")),
                  seen |-> acc.seen \cup {fullUrl}])

parseAnthropicEngineering(html, siteUrl) ==
  EngineeringScan(html, 1, siteUrl, [posts |-> <<>>, seen |-> {}])

\* $('a').each(...) of the research parser.
RECURSIVE ResearchScan(_, _, _, _)
ResearchScan(html, i, siteUrl, acc) ==
  IF i > Len(html) THEN acc.posts
  ELSE LET a == html[i]
           fullUrl == fullUrlOf(a.href, siteUrl)
           lines == linesOf(a.text)
           st == ResearchLines(lines, 1, [title |-> "", dateStr |-> "", category |-> "Research"])
       IN ResearchScan(html, i + 1, siteUrl,
            IF ~ResearchSelects(a.href) THEN acc
            ELSE IF fullUrl \in acc.seen THEN acc
            ELSE IF Len(lines) = 0 THEN acc
            ELSE IF st.title = "" THEN acc
            ELSE [posts |-> Append(acc.posts,
                              Post(normalizeText(st.title), fullUrl, st.category, st.dateStr,
                                   "Anthropic Research")),
                  seen |-> acc.seen \cup {fullUrl}])

parseAnthropicResearch(html, siteUrl) ==
  ResearchScan(html, 1, siteUrl, [posts |-> <<>>, seen |-> {}])

\* ----------------------------------------------- a parser on its own
MaxLines == 3
MaxAnchors == 2

ParserSlugs == {"cursor", "claude", "anthropic-engineering", "anthropic-research"}

PlainAnchor(href, text) == Anchor(href, FALSE, <<>>, "", "", "", text)

\* A card: the anchor's text is the text of its parts.
CardAnchor(href, paras, span, timeAttr, timeText) ==
  Anchor(href, TRUE, paras, span, timeAttr, timeText,
         join(paras \o << span \o " " \o timeText >>, "\n"))

LineChoices == {"Nov 13, 2025", "november  3 2025", "Product announcements", "Agents",
                "Announcements", "Read more about it", "A long enough title line",
                "  Thirteen  ch  "}

TextChoices == UNION {{join(ls, "\n") : ls \in [1..n -> LineChoices]} : n \in 0..MaxLines}

\* One anchor, selected by every parser, whose text runs over the line choices.
LineInputs == {<< PlainAnchor("/blog/news/x", text) >> : text \in TextChoices}

Hrefs == {"/blog", "/blog/", "/blog/a", "/blog/page/2", "/blog/topic/ai",
          "/engineering/y", "/research/z", "/news/x", "https://claude.com/blog/l"}

AnchorChoices ==
  {PlainAnchor(href, "The title of a post\nproduct · Nov 14, 2025") : href \in Hrefs}
  \cup {PlainAnchor("", "The title of a post"), PlainAnchor("/blog/a", "More")}
  \cup {CardAnchor(href, << "The  title of a post", "About it" >>, "product ·", "", "Nov 14, 2025") :
          href \in {"/blog/a", "/blog/page/2", "/blog/topic/ai"}}
  \cup {CardAnchor("/blog/a", << "The  title of a post" >>, "", "2025-11-12", ""),
        CardAnchor("/blog/a", <<>>, "product ·", "", "Nov 14, 2025")}

\* Up to MaxAnchors anchors whose hrefs run over the href choices.
AnchorInputs == UNION {[1..n -> AnchorChoices] : n \in 0..MaxAnchors}

InitParse ==
  /\ prog = "multi"
  /\ listing = "finite"
  /\ pc = "parse"
  /\ srcIdx = 1
  /\ page = 1
  /\ crawlPosts = <<>>
  /\ crawlRet = [s \in {} |-> <<>>]
  /\ invoked = <<>>
  /\ fetchLog = <<>>
  /\ errLog = <<>>
  /\ postsBySource = [s \in {} |-> <<>>]
  /\ allPosts = <<>>
  /\ feeds = [t \in Slugs \cup {"legacy", "all"} |-> <<>>]
  /\ written = {}
  /\ feedIdx = 1
  /\ itemIdx = 1
  /\ sortedPosts = <<>>
  /\ si = 2
  /\ sj = 2
  /\ now = 0
  /\ dIn = <<>>
  /\ dOut = <<>>
  /\ hIn \in LineInputs \cup AnchorInputs
  /\ hParser \in ParserSlugs
  /\ hOut = <<>>

ParseCursorBlog ==
  /\ pc = "parse"
  /\ hParser = "cursor"
  /\ hOut = <<>>
  /\ hOut' = << parseCursorBlog(hIn, siteUrlOf(hParser)) >>
  /\ UNCHANGED << mainVars, dedupeVars, hIn, hParser >>

ParseClaudeBlog ==
  /\ pc = "parse"
  /\ hParser = "claude"
  /\ hOut = <<>>
  /\ hOut' = << parseClaudeBlog(hIn, siteUrlOf(hParser)) >>
  /\ UNCHANGED << mainVars, dedupeVars, hIn, hParser >>

ParseAnthropicEngineering ==
  /\ pc = "parse"
  /\ hParser = "anthropic-engineering"
  /\ hOut = <<>>
  /\ hOut' = << parseAnthropicEngineering(hIn, siteUrlOf(hParser)) >>
  /\ UNCHANGED << mainVars, dedupeVars, hIn, hParser >>

ParseAnthropicResearch ==
  /\ pc = "parse"
  /\ hParser = "anthropic-research"
  /\ hOut = <<>>
  /\ hOut' = << parseAnthropicResearch(hIn, siteUrlOf(hParser)) >>
  /\ UNCHANGED << mainVars, dedupeVars, hIn, hParser >>

NextParse ==
  \/ ParseCursorBlog
  \/ ParseClaudeBlog
  \/ ParseAnthropicEngineering
  \/ ParseAnthropicResearch

SpecParse == InitParse /\ [][NextParse]_vars

\* ================================================================== claims
LogOf(slug) == SelectSeq(fetchLog, LAMBDA e : e.slug = slug)

\* The posts parsed from the first k logged pages, in page order.
RECURSIVE ConcatPages(_, _)
ConcatPages(log, k) == IF k = 0 THEN <<>> ELSE ConcatPages(log, k - 1) \o log[k].posts

Returned(slug) == slug \in DOMAIN crawlRet

\* Pages 1..k were fetched, each parsed to a non-empty list and referenced
\* the next page, and page k+1 was fetched and parsed to an empty list.
EndsAtEmptyPage(log, k) ==
  /\ Len(log) >= k + 1
  /\ log[k + 1].ok /\ log[k + 1].posts = <<>>
  /\ \A i \in 1..k : log[i].ok /\ log[i].posts # <<>> /\ log[i].next

C2_FetchFailureStopsCrawl ==
  LET log == LogOf("cursor")
  IN  \A n \in 1..Len(log) :
        ~log[n].ok
          => /\ n = Len(log)
             /\ Returned("cursor")
             /\ crawlPosts = ConcatPages(log, n - 1)
             /\ prog = "multi" => crawlRet["cursor"] = ConcatPages(log, n - 1)
             /\ \A i \in 1..n : log[i].page = i

\* The fetch of page 2 failed after page 1 gave posts, and the crawler
\* returned page 1's posts.
C2_Witness ==
  LET log == LogOf("cursor")
  IN  /\ prog = "multi"
      /\ Len(log) = 2
      /\ log[1].ok
      /\ ~log[2].ok
      /\ Returned("cursor")
      /\ crawlRet["cursor"] = log[1].posts
      /\ crawlRet["cursor"] # <<>>

\* Within the ceiling: at most 100 fetches, none of a page above 100, and a
\* crawler that has returned returns everything it parsed.
CrawlWithinCeiling ==
  LET log == LogOf("cursor")
  IN  /\ Len(log) <= 100
      /\ \A i \in 1..Len(log) : log[i].page <= 100
      /\ Returned("cursor") =>
           /\ crawlPosts = ConcatPages(log, Len(log))
           /\ prog = "multi" => crawlRet["cursor"] = crawlPosts

\* C3: whatever the fetcher and the parser answer, the crawler issues at most
\* 100 fetches, never requests a page above 100, and, every fetch completing,
\* terminates returning the posts collected so far.
C3_CeilingAndTermination ==
  /\ []CrawlWithinCeiling
  /\ (pc = "crawl") ~> Returned("cursor")

\* The ceiling was reached: 100 pages, each non-empty and referencing the
\* next, were fetched and the crawler returned their 100 posts.
C3_Witness ==
  LET log == LogOf("cursor")
  IN  /\ Len(log) = 100
      /\ \A i \in 1..100 : log[i].ok /\ log[i].posts # <<>> /\ log[i].next
      /\ Returned("cursor")
      /\ Len(crawlPosts) = 100

\* Position of a source in blogSources.
SourcePos(slug) == CHOOSE i \in 1..Len(blogSources) : blogSources[i].slug = slug

\* Every fetch issued for the source failed.
AllFetchesFailed(slug) ==
  LET log == LogOf(slug)
  IN  log # <<>> /\ \A i \in 1..Len(log) : ~log[i].ok

\* Items of the aggregate feed that come from the source.
AggregateItemsOf(slug) ==
  SelectSeq(feeds["all"], LAMBDA it : it.category[2] = blogSources[SourcePos(slug)].name)

RunIsolation ==
  prog = "multi" =>
    /\ Len(invoked) <= Len(blogSources)
    /\ \A i \in 1..Len(invoked) : invoked[i] = blogSources[i].slug
    /\ \A i \in 2..Len(invoked) : blogSources[i - 1].slug \in DOMAIN postsBySource
    /\ \A i \in 1..Len(fetchLog) : fetchLog[i].slug \in {invoked[k] : k \in 1..Len(invoked)}
    /\ \A i \in 1..(Len(fetchLog) - 1) :
         SourcePos(fetchLog[i].slug) <= SourcePos(fetchLog[i + 1].slug)
    /\ pc \in {"feed", "sort", "done"} =>
         /\ Len(invoked) = Len(blogSources)
         /\ DOMAIN postsBySource = Slugs
    /\ pc = "done" =>
         /\ written = Slugs \cup {"legacy", "all"}
         /\ \A s \in Slugs : AllFetchesFailed(s) =>
              /\ postsBySource[s] = <<>>
              /\ feeds[s] = <<>>
              /\ AggregateItemsOf(s) = <<>>

\* C4: whatever fetches fail, main calls the crawler of every configured
\* source exactly once, in configured order, each after the previous source's
\* crawl has completed and been collected; a failure in one source never
\* prevents the crawl of a later one; the run always reaches the end, with the
\* per-source, legacy and aggregate feeds written; and a source whose every
\* fetch failed contributes no post to its own feed or to the aggregate.
C4_RunIsolation ==
  /\ []RunIsolation
  /\ <>(pc = "done")

\* A finished run in which the Cursor and Engineering fetches all failed and
\* the two other sources still produced their feeds.
C4_Witness ==
  /\ prog = "multi"
  /\ pc = "done"
  /\ AllFetchesFailed("cursor")
  /\ AllFetchesFailed("anthropic-engineering")
  /\ feeds["claude"] # <<>>
  /\ feeds["anthropic-research"] # <<>>
  /\ Len(feeds["all"]) = 2

\* C5: a single-page crawler issues exactly one fetch, of the source's
\* listing URL; on success it returns what the parser extracted from that
\* page and logs nothing; on failure it logs the failure once and returns the
\* empty list.
C5_SinglePageCrawler ==
  \A i \in 2..Len(blogSources) :
    LET s == blogSources[i].slug
        log == LogOf(s)
    IN  /\ Len(log) <= 1
        /\ Returned(s) <=> Len(log) = 1
        /\ Returned(s) =>
             /\ log[1].url = <<blogSources[i].url>>
             /\ log[1].ok => crawlRet[s] = log[1].posts /\ \A k \in 1..Len(errLog) : errLog[k] # s
             /\ ~log[1].ok => /\ crawlRet[s] = <<>>
                              /\ Cardinality({k \in 1..Len(errLog) : errLog[k] = s}) = 1

\* One run in which the Claude crawler returned its page's posts and the
\* Engineering crawler, its fetch failing, logged and returned nothing.
C5_Witness ==
  /\ Returned("claude")
  /\ Returned("anthropic-engineering")
  /\ LogOf("claude")[1].ok
  /\ crawlRet["claude"] = ClaudeVariants[1]
  /\ ~LogOf("anthropic-engineering")[1].ok
  /\ crawlRet["anthropic-engineering"] = <<>>
  /\ errLog = << "anthropic-engineering" >>

UniqueLinks(L) == \A i \in 1..Len(L) : \A j \in 1..Len(L) : i # j => L[i].link # L[j].link

\* C6: no list produced by the Deduplicator (each per-source list, the list
\* fetchAllPosts returns) and no Aggregator output (the array being sorted and
\* the items emitted to the combined feed) holds the same link at two
\* positions.
C6_Uniqueness ==
  /\ \A s \in DOMAIN postsBySource : UniqueLinks(postsBySource[s])
  /\ prog = "single" /\ Returned("cursor") => UniqueLinks(crawlRet["cursor"])
  /\ UniqueLinks(sortedPosts)
  /\ UniqueLinks(feeds["all"])

\* A finished run whose Cursor crawl returned a repeated link and whose
\* sources share a link.
C6_Witness ==
  /\ prog = "multi"
  /\ pc = "done"
  /\ ~UniqueLinks(crawlRet["cursor"])
  /\ ~UniqueLinks(allPosts)
  /\ Len(feeds["all"]) >= 3

\* Positions of the input that hold the first occurrence of their link.
FirstPositions(L) == {i \in 1..Len(L) : \A j \in 1..(i - 1) : L[j].link # L[i].link}

\* out is L restricted to the first position of each link, in L's order.
IsFirstOccurrences(out, L) ==
  /\ Len(out) = Cardinality(FirstPositions(L))
  /\ \A i \in 1..Len(L) : \E k \in 1..Len(out) : out[k].link = L[i].link
  /\ \A k \in 1..Len(out) : \E i \in FirstPositions(L) : out[k] = L[i]
  /\ \A k \in 1..Len(out) : \A m \in (k + 1)..Len(out) :
       \A i \in FirstPositions(L) : \A j \in FirstPositions(L) :
         out[k] = L[i] /\ out[m] = L[j] => i < j

\* C7: the Deduplicator's output is the subsequence of its input made of the
\* entry at the first position of each distinct link, in the input's order: it
\* contains every link of the input and nothing that was not in the input.
C7_FirstSeenWins == dOut # <<>> => IsFirstOccurrences(dOut[1], dIn)

\* The input [x, y, x'] with x and x' sharing a link but differing, reduced
\* to [x, y].
C7_Witness ==
  /\ dOut # <<>>
  /\ Len(dIn) = 3
  /\ dIn[1].link = dIn[3].link
  /\ dIn[1] # dIn[3]
  /\ dIn[2].link # dIn[1].link
  /\ dOut[1] = << dIn[1], dIn[2] >>

\* C10: running the Deduplicator on its own output gives that output again.
C10_Idempotence == Len(dOut) = 2 => dOut[2] = dOut[1]

\* Both runs done on an input from which the first run removed entries.
C10_Witness ==
  /\ Len(dOut) = 2
  /\ Len(dOut[1]) < Len(dIn)
  /\ Len(dOut[1]) >= 2

\* C8: in the combined feed the resolved dates attached to the items are
\* non-increasing from each item to the next.
C8_SortedByResolvedDate ==
  \A i \in 1..(Len(feeds["all"]) - 1) : feeds["all"][i].date >= feeds["all"][i + 1].date

\* Two posts tie when their raw dates are equal or both fail to parse.
Ties(a, b) == a.date = b.date \/ (IsNaNDate(a.date) /\ IsNaNDate(b.date))

PositionIn(L, link) == CHOOSE i \in 1..Len(L) : L[i].link = link

\* C9: once sorted, posts that tie keep the relative order they had in the
\* Aggregator's input.
C9_TiesKeepInputOrder ==
  (prog = "multi" /\ pc \in {"feed", "done"} /\ feedIdx = Len(FeedTargets)) =>
    \A i \in 1..Len(sortedPosts) : \A j \in (i + 1)..Len(sortedPosts) :
      Ties(sortedPosts[i], sortedPosts[j]) =>
        PositionIn(dedupeByLink(allPosts), sortedPosts[i].link)
          < PositionIn(dedupeByLink(allPosts), sortedPosts[j].link)

\* The hrefs of pagination and topic-filter navigation.
NavigationHrefs == {"/blog/page/2", "/blog/topic/ai"}

\* The post of the parser's output that anchor a gave rise to carries the link
\* built from a's href.
ProducedFrom(a, post) == post.link = fullUrlOf(a.href, siteUrlOf(hParser))

\* C11: an anchor whose href is a pagination link ("/blog/page/2") or a
\* topic-filter link ("/blog/topic/ai") never produces a post in the output of
\* a parser, whatever its text and whichever extraction path runs.
C11_NavigationExclusion ==
  hOut # <<>> =>
    \A i \in 1..Len(hIn) : hIn[i].href \in NavigationHrefs =>
      \A k \in 1..Len(hOut[1]) : ~ProducedFrom(hIn[i], hOut[1][k])

\* The heuristic parsers, with the length a title line must exceed and the
\* category labels each of them knows.
HeuristicSlugs == {"claude", "anthropic-engineering", "anthropic-research"}

ThresholdOf(slug) == IF slug = "claude" THEN 10 ELSE 15

AllowListOf(slug) ==
  CASE slug = "claude" -> ClaudeCategories
    [] slug = "anthropic-research" -> ResearchCategories
    [] OTHER -> {}

\* A line classified as date or category.
IsClassified(slug, line) == IsDateLine(line) \/ line \in AllowListOf(slug)

\* A remaining line that can be the title.
IsTitleLine(slug, line) ==
  /\ ~IsClassified(slug, line)
  /\ Len(line) > ThresholdOf(slug)
  /\ slug = "claude" => ~includes(line, "Read more")

\* C12: for markup with one anchor that a heuristic parser selects, the title
\* is the first line, in line order, that is neither a date nor a known
\* category label and exceeds the parser's length threshold (and for Claude
\* does not contain "Read more"), so a date or category line is never the
\* title; with no such line the anchor yields no post.
C12_LineClassification ==
  (hOut # <<>> /\ hParser \in HeuristicSlugs /\ hIn \in LineInputs) =>
    LET lines == linesOf(hIn[1].text)
        titles == {i \in 1..Len(lines) : IsTitleLine(hParser, lines[i])}
    IN IF titles = {} THEN hOut[1] = <<>>
       ELSE LET first == CHOOSE i \in titles : \A j \in titles : i <= j
            IN /\ Len(hOut[1]) = 1
               /\ hOut[1][1].title = normalizeText(lines[first])

\* The URL at which page k of the listing is requested.
ListingUrl(k) ==
  IF k = 1 THEN << "https://cursor.com/blog" >> ELSE << "https://cursor.com/blog", "page", k >>

\* The crawl's requests so far are of pages 1, 2, 3, ... in that order, each at
\* its URL.
RequestsInOrder(log) == \A k \in 1..Len(log) : log[k].page = k /\ log[k].url = ListingUrl(k)

\* The crawl stopped at its last request with that page's posts in the result.
StoppedWithLastPage(log) ==
  /\ Returned("cursor")
  /\ crawlPosts = ConcatPages(log, Len(log))
  /\ prog = "multi" => crawlRet["cursor"] = ConcatPages(log, Len(log))
  /\ prog = "single" => crawlRet["cursor"] = dedupeByLink(ConcatPages(log, Len(log)))

SourcesWith(link) ==
  {slug \in DOMAIN postsBySource : \E i \in 1..Len(postsBySource[slug]) :
                                     postsBySource[slug][i].link = link}

FirstSourceWith(link) ==
  CHOOSE slug \in SourcesWith(link) :
    \A other \in SourcesWith(link) : SourcePos(slug) <= SourcePos(other)

EntryOf(L, link) == L[CHOOSE i \in 1..Len(L) : L[i].link = link]

SharedLinks ==
  {link \in {allPosts[i].link : i \in 1..Len(allPosts)} : Cardinality(SourcesWith(link)) >= 2}

\* C14: when two sources return the same link, the aggregate feed has exactly
\* one item for it, with the title, category and source of the source that
\* comes first in the configured order; each of the sources still has its own
\* entry for the link, in its list and in its feed; and every per-source list
\* is, after the aggregate is built, the list its crawl result was filtered to.
C14_CrossSourceMerge ==
  (prog = "multi" /\ pc = "done") =>
    /\ \A link \in SharedLinks :
          LET first == EntryOf(postsBySource[FirstSourceWith(link)], link)
              name == blogSources[SourcePos(FirstSourceWith(link))].name
              items == SelectSeq(feeds["all"], LAMBDA it : it.link = link)
          IN  /\ Len(items) = 1
              /\ first.source = name
              /\ items[1].title = "[" \o name \o "] " \o first.title
              /\ items[1].category = << first.category, name >>
              /\ items[1].raw = first.date
              /\ \A slug \in SourcesWith(link) :
                    LET own == SelectSeq(feeds[slug], LAMBDA it : it.link = link)
                    IN  /\ Len(own) = 1
                        /\ own[1].title = EntryOf(postsBySource[slug], link).title
                        /\ own[1].category = << EntryOf(postsBySource[slug], link).category >>
    /\ \A slug \in DOMAIN postsBySource :
          IsFirstOccurrences(postsBySource[slug], crawlRet[slug])

\* A finished run in which the engineering and the research lists both hold
\* the same /news/ link, with different categories, and the aggregate has it.
C14_Witness ==
  /\ prog = "multi"
  /\ pc = "done"
  /\ SourcesWith(ne) = {"anthropic-engineering", "anthropic-research"}
  /\ EntryOf(postsBySource["anthropic-engineering"], ne).category
       # EntryOf(postsBySource["anthropic-research"], ne).category
  /\ \E i \in 1..Len(feeds["all"]) : feeds["all"][i].link = ne

====
